---- MODULE Spec2Model ----
(***************************************************************************)
(* Ledger.transfer_funds (src/Ledger/__init__.py): a double-entry transfer *)
(* between two balance rows, done with row-level locks (SELECT ... FOR     *)
(* UPDATE) inside one database transaction per attempt, retried on         *)
(* sqlalchemy.exc.OperationalError.                                        *)
(*                                                                         *)
(* Every caller owns one Ledger object, hence one connection (a session).  *)
(* The store is a READ COMMITTED database: a session's writes stay private *)
(* to its open transaction until commit, a FOR UPDATE read waits for the   *)
(* row lock and then returns the committed value, and a cycle of lock      *)
(* waits is broken by the store raising a deadlock error in one waiter.    *)
(***************************************************************************)
EXTENDS Integers, Sequences, FiniteSets, TLC

\* ---------------------------------------------------------------- bounds
NumSessions == 2
NumAccounts == 4
NumHot == 2
MaxAmount == 1
MaxCalls == 1

\* ------------------------------------------------------ program constants
MAX_RETRIES == 5
BaseDelay == 1

Sessions == 1..NumSessions
Accounts == 1..NumAccounts
\* account_id 0 has no row in "balances"
UnknownId == 0
HotIds == {UnknownId} \cup (1..NumHot)
Amounts == (-1)..MaxAmount
NoSession == 0

\* exceptions the store raises out of connection.execute / connection.commit
StoreErrors == {"Unavailable", "Constraint"}
Statements == {"select_debit", "select_credit", "insert", "update_debit",
               "update_credit", "commit"}
Terminal == {"idle", "returned", "raised"}

VARIABLES
    balances,       \* table balances: account_id -> committed balance
    transactions,   \* table transactions: committed rows, in insertion order
    rowLock,        \* row lock on each balances row: holder, or NoSession
    pc,             \* each session's position in transfer_funds
    call,           \* arguments of the session's current call
    attempt,        \* loop variable of "for attempt in range(MAX_RETRIES)"
    debit_balance,  \* local: <<>> while unbound, <<v>> once read
    credit_balance, \* local: <<>> while unbound, <<v>> once read
    inserted,       \* uncommitted INSERTs of the session's open transaction
    writes,         \* uncommitted UPDATEs of the open transaction, in order
    lastErr,        \* kind of the last exception caught in the current call
    delay,          \* argument of the last time.sleep of the current call
    ncalls,         \* history: calls the session has made
    conflicts,      \* history: OperationalErrors caught in the current call
    committed,      \* history: the current call's transaction committed
    nrec,           \* history: rows of transactions committed by the call
    delta,          \* history: net committed balance change made by the call
    ncommits        \* history: commits performed by all sessions

vars == <<balances, transactions, rowLock, pc, call, attempt, debit_balance,
          credit_balance, inserted, writes, lastErr, delay, ncalls,
          conflicts, committed, nrec, delta, ncommits>>

\* ---------------------------------------------------------------- helpers
ZeroBalances == [a \in Accounts |-> 0]

NoCall == [debit_account_id |-> UnknownId, credit_account_id |-> UnknownId,
           amount |-> 0]

RECURSIVE ApplyWrites(_, _)
\* UPDATE balances SET balance = v WHERE account_id = a, in statement order
ApplyWrites(bal, ws) ==
    IF ws = <<>> THEN bal
    ELSE ApplyWrites([bal EXCEPT ![ws[1][1]] = ws[1][2]], Tail(ws))

IsOperationalError_all(kind) == TRUE
\* except sqlalchemy.exc.OperationalError: deadlock_detected and connection
\* failures are both DB-API OperationalErrors; IntegrityError and the
\* TypeError of None[0] fall through to "except Exception"
IsOperationalError(kind) == kind \in {"Deadlock", "Unavailable"}

HasNextAttempt_offByOne(a) == a + 1 <= MAX_RETRIES
\* range(MAX_RETRIES) yields another value after a
HasNextAttempt(a) == a + 1 < MAX_RETRIES

BackoffDelay_const(a) == BaseDelay
\* time.sleep(0.1 * (attempt + 1)), in ticks of 0.1 s
BackoffDelay(a) == BaseDelay * (a + 1)

NewDebit_plus(bal, amount) == bal + amount
NewDebit_floor(bal, amount) == IF bal - amount < 0 THEN bal ELSE bal - amount
\* new_debit = debit_balance - amount
NewDebit(bal, amount) == bal - amount

NewCredit_minus(bal, amount) == bal - amount
\* new_credit = credit_balance + amount
NewCredit(bal, amount) == bal + amount

RowAvailable_nolock(a, p) == TRUE
RowAvailable_table(a, p) == \A b \in Accounts : rowLock[b] \in {NoSession, p}
\* FOR UPDATE is granted when the row is unlocked or locked by the session
RowAvailable(a, p) == rowLock[a] \in {NoSession, p}

\* the row a session is asking a lock for
Wants(p) ==
    IF pc[p] = "select_debit" THEN call[p].debit_account_id
    ELSE IF pc[p] = "select_credit" THEN call[p].credit_account_id
    ELSE UnknownId

WaitsFor(p, q) ==
    /\ p # q
    /\ Wants(p) \in Accounts
    /\ ~RowAvailable(Wants(p), p)
    /\ rowLock[Wants(p)] = q

\* the session's FOR UPDATE read cannot be granted now
Blocked(p) == Wants(p) \in Accounts /\ ~RowAvailable(Wants(p), p)

RECURSIVE ReachIn(_, _, _)
\* q is reachable from p along at most n wait-for edges (n >= 1)
ReachIn(p, q, n) ==
    \/ WaitsFor(p, q)
    \/ /\ n > 1
       /\ \E r \in Sessions : WaitsFor(p, r) /\ ReachIn(r, q, n - 1)

\* the store's deadlock detector: p is on a cycle of lock waits
InDeadlock(p) == ReachIn(p, p, NumSessions)

InFlight(p) == pc[p] \notin Terminal
Quiescent == \A p \in Sessions : ~InFlight(p)

Init ==
    /\ balances = ZeroBalances
    /\ transactions = <<>>
    /\ rowLock = [a \in Accounts |-> NoSession]
    /\ pc = [p \in Sessions |-> "idle"]
    /\ call = [p \in Sessions |-> NoCall]
    /\ attempt = [p \in Sessions |-> 0]
    /\ debit_balance = [p \in Sessions |-> <<>>]
    /\ credit_balance = [p \in Sessions |-> <<>>]
    /\ inserted = [p \in Sessions |-> <<>>]
    /\ writes = [p \in Sessions |-> <<>>]
    /\ lastErr = [p \in Sessions |-> "none"]
    /\ delay = [p \in Sessions |-> 0]
    /\ ncalls = [p \in Sessions |-> 0]
    /\ conflicts = [p \in Sessions |-> 0]
    /\ committed = [p \in Sessions |-> FALSE]
    /\ nrec = [p \in Sessions |-> 0]
    /\ delta = [p \in Sessions |-> ZeroBalances]
    /\ ncommits = 0


\* ------------------------------------------------------------ transaction
Visible_stale(p, a) ==
    IF a = call[p].debit_account_id /\ debit_balance[p] # <<>>
    THEN debit_balance[p][1]
    ELSE IF a = call[p].credit_account_id /\ credit_balance[p] # <<>>
    THEN credit_balance[p][1]
    ELSE balances[a]
\* what a statement of session p reads from row a: committed data overlaid
\* with the session's own uncommitted UPDATEs
Visible(p, a) == ApplyWrites(balances, writes[p])[a]

ReleaseLocks_none(p) == rowLock
\* commit and rollback end the transaction and release its row locks
ReleaseLocks(p) ==
    [a \in Accounts |-> IF rowLock[a] = p THEN NoSession ELSE rowLock[a]]

RollbackBalances_persist(p) == ApplyWrites(balances, writes[p])
\* connection.rollback(): the uncommitted UPDATEs are discarded
RollbackBalances(p) == balances

RollbackLog_persist(p) == transactions \o inserted[p]
\* connection.rollback(): the uncommitted INSERT is discarded
RollbackLog(p) == transactions

CommitBalances_debitOnly(p) ==
    IF writes[p] = <<>> THEN balances
    ELSE ApplyWrites(balances, <<writes[p][1]>>)
\* connection.commit(): the UPDATEs become visible together
CommitBalances(p) == ApplyWrites(balances, writes[p])

CommitLog_none(p) == transactions
CommitLog_replace(p) == inserted[p]
\* connection.commit(): the INSERT becomes visible
CommitLog(p) == transactions \o inserted[p]

\* history bookkeeping of a step of session p that may change the tables
History(p) ==
    /\ nrec' = [nrec EXCEPT ![p] = @ + Len(transactions') - Len(transactions)]
    /\ delta' = [delta EXCEPT ![p] =
                    [a \in Accounts |-> @[a] + balances'[a] - balances[a]]]

\* an exception of the given kind leaves a statement of the try block:
\* both handlers roll back; OperationalError sleeps and continues the loop,
\* anything else is re-raised
Handle(p, kind) ==
    /\ balances' = RollbackBalances(p)
    /\ transactions' = RollbackLog(p)
    /\ rowLock' = ReleaseLocks(p)
    /\ inserted' = [inserted EXCEPT ![p] = <<>>]
    /\ writes' = [writes EXCEPT ![p] = <<>>]
    /\ lastErr' = [lastErr EXCEPT ![p] = kind]
    /\ IF IsOperationalError(kind)
       THEN /\ pc' = [pc EXCEPT ![p] = "sleep"]
            /\ delay' = [delay EXCEPT ![p] = BackoffDelay(attempt[p])]
            /\ conflicts' = [conflicts EXCEPT ![p] = @ + 1]
       ELSE /\ pc' = [pc EXCEPT ![p] = "raised"]
            /\ UNCHANGED <<delay, conflicts>>
    /\ History(p)
    /\ UNCHANGED <<call, attempt, debit_balance, credit_balance, ncalls,
                   committed, ncommits>>

\* ---------------------------------------------------------------- actions
\* a caller invokes transfer_funds(d, c, a) on its own Ledger object
Call(p, ids, limit) ==
    /\ pc[p] \in Terminal
    /\ ncalls[p] < limit
    /\ \E d \in ids, c \in ids, a \in Amounts :
          call' = [call EXCEPT ![p] = [debit_account_id |-> d,
                                       credit_account_id |-> c,
                                       amount |-> a]]
    /\ pc' = [pc EXCEPT ![p] = "select_debit"]
    /\ attempt' = [attempt EXCEPT ![p] = 0]
    /\ debit_balance' = [debit_balance EXCEPT ![p] = <<>>]
    /\ credit_balance' = [credit_balance EXCEPT ![p] = <<>>]
    /\ lastErr' = [lastErr EXCEPT ![p] = "none"]
    /\ delay' = [delay EXCEPT ![p] = 0]
    /\ ncalls' = [ncalls EXCEPT ![p] = @ + 1]
    /\ conflicts' = [conflicts EXCEPT ![p] = 0]
    /\ committed' = [committed EXCEPT ![p] = FALSE]
    /\ nrec' = [nrec EXCEPT ![p] = 0]
    /\ delta' = [delta EXCEPT ![p] = ZeroBalances]
    /\ UNCHANGED <<balances, transactions, rowLock, inserted, writes,
                   ncommits>>

CallHot(p) == Call(p, HotIds, MaxCalls)

CallOnce(p) == Call(p, Accounts, 1)

\* SELECT balance FROM balances WHERE account_id = {debit} FOR UPDATE;
\* debit_balance = results.first()[0]
SelectDebit(p) ==
    /\ pc[p] = "select_debit"
    /\ LET d == call[p].debit_account_id IN
       IF d \notin Accounts
       THEN Handle(p, "TypeError")
       ELSE /\ RowAvailable(d, p)
            /\ rowLock' = [rowLock EXCEPT ![d] = p]
            /\ debit_balance' = [debit_balance EXCEPT ![p] = <<Visible(p, d)>>]
            /\ pc' = [pc EXCEPT ![p] = "select_credit"]
            /\ UNCHANGED <<balances, transactions, call, attempt,
                           credit_balance, inserted, writes, lastErr, delay,
                           ncalls, conflicts, committed, nrec, delta,
                           ncommits>>

\* SELECT balance FROM balances WHERE account_id = {credit} FOR UPDATE;
\* credit_balance = results.first()[0]
SelectCredit(p) ==
    /\ pc[p] = "select_credit"
    /\ LET c == call[p].credit_account_id IN
       IF c \notin Accounts
       THEN Handle(p, "TypeError")
       ELSE /\ RowAvailable(c, p)
            /\ rowLock' = [rowLock EXCEPT ![c] = p]
            /\ credit_balance' = [credit_balance EXCEPT ![p] = <<Visible(p, c)>>]
            /\ pc' = [pc EXCEPT ![p] = "insert"]
            /\ UNCHANGED <<balances, transactions, call, attempt,
                           debit_balance, inserted, writes, lastErr, delay,
                           ncalls, conflicts, committed, nrec, delta,
                           ncommits>>

\* INSERT INTO transactions (debit_account_id, credit_account_id, amount)
InsertTransaction(p) ==
    /\ pc[p] = "insert"
    /\ inserted' = [inserted EXCEPT ![p] = Append(@, call[p])]
    /\ pc' = [pc EXCEPT ![p] = "update_debit"]
    /\ UNCHANGED <<balances, transactions, rowLock, call, attempt,
                   debit_balance, credit_balance, writes, lastErr, delay,
                   ncalls, conflicts, committed, nrec, delta, ncommits>>

\* UPDATE balances SET balance = {new_debit} WHERE account_id = {debit}
UpdateDebit(p) ==
    /\ pc[p] = "update_debit"
    /\ writes' = [writes EXCEPT ![p] =
                    Append(@, <<call[p].debit_account_id,
                                NewDebit(debit_balance[p][1], call[p].amount)>>)]
    /\ pc' = [pc EXCEPT ![p] = "update_credit"]
    /\ UNCHANGED <<balances, transactions, rowLock, call, attempt,
                   debit_balance, credit_balance, inserted, lastErr, delay,
                   ncalls, conflicts, committed, nrec, delta, ncommits>>

\* UPDATE balances SET balance = {new_credit} WHERE account_id = {credit}
UpdateCredit(p) ==
    /\ pc[p] = "update_credit"
    /\ writes' = [writes EXCEPT ![p] =
                    Append(@, <<call[p].credit_account_id,
                                NewCredit(credit_balance[p][1], call[p].amount)>>)]
    /\ pc' = [pc EXCEPT ![p] = "commit"]
    /\ UNCHANGED <<balances, transactions, rowLock, call, attempt,
                   debit_balance, credit_balance, inserted, lastErr, delay,
                   ncalls, conflicts, committed, nrec, delta, ncommits>>

\* self.connection.commit(); break -- the function then returns None
Commit(p) ==
    /\ pc[p] = "commit"
    /\ balances' = CommitBalances(p)
    /\ transactions' = CommitLog(p)
    /\ rowLock' = ReleaseLocks(p)
    /\ inserted' = [inserted EXCEPT ![p] = <<>>]
    /\ writes' = [writes EXCEPT ![p] = <<>>]
    /\ pc' = [pc EXCEPT ![p] = "returned"]
    /\ committed' = [committed EXCEPT ![p] = TRUE]
    /\ ncommits' = ncommits + 1
    /\ History(p)
    /\ UNCHANGED <<call, attempt, debit_balance, credit_balance, lastErr,
                   delay, ncalls, conflicts>>

\* connection.execute or connection.commit raises a store error
StoreError(p) ==
    /\ pc[p] \in Statements
    /\ \E kind \in StoreErrors : Handle(p, kind)

\* the store breaks a cycle of lock waits by raising deadlock_detected in
\* one of the waiting sessions
DeadlockAbort(p) ==
    /\ InDeadlock(p)
    /\ Handle(p, "Deadlock")

\* time.sleep returns; continue: the for loop takes its next value, or is
\* exhausted and the function falls off its end, returning None
Backoff(p) ==
    /\ pc[p] = "sleep"
    /\ IF HasNextAttempt(attempt[p])
       THEN /\ attempt' = [attempt EXCEPT ![p] = @ + 1]
            /\ pc' = [pc EXCEPT ![p] = "select_debit"]
       ELSE /\ pc' = [pc EXCEPT ![p] = "returned"]
            /\ UNCHANGED attempt
    /\ UNCHANGED <<balances, transactions, rowLock, call, debit_balance,
                   credit_balance, inserted, writes, lastErr, delay, ncalls,
                   conflicts, committed, nrec, delta, ncommits>>

\* ---------------------------------------------------------- specifications
\* any store error may strike any statement; callers transfer among the
\* contended accounts and the unknown id
Next ==
    \E p \in Sessions :
        \/ CallHot(p)
        \/ SelectDebit(p)
        \/ SelectCredit(p)
        \/ InsertTransaction(p)
        \/ UpdateDebit(p)
        \/ UpdateCredit(p)
        \/ Commit(p)
        \/ StoreError(p)
        \/ DeadlockAbort(p)
        \/ Backoff(p)

Spec == Init /\ [][Next]_vars

\* each session makes exactly one call over existing accounts, and the only
\* errors are the deadlocks the store detects
NextTwo ==
    \E p \in Sessions :
        \/ CallOnce(p)
        \/ SelectDebit(p)
        \/ SelectCredit(p)
        \/ InsertTransaction(p)
        \/ UpdateDebit(p)
        \/ UpdateCredit(p)
        \/ Commit(p)
        \/ DeadlockAbort(p)
        \/ Backoff(p)

SpecTwo == Init /\ [][NextTwo]_vars


\* ------------------------------------------------------------- properties
RECURSIVE SumOver(_, _)
SumOver(f, S) ==
    IF S = {} THEN 0
    ELSE LET x == CHOOSE y \in S : TRUE IN f[x] + SumOver(f, S \ {x})

RECURSIVE Net(_, _)
\* credits minus debits that the rows of a log book on account a
Net(log, a) ==
    IF log = <<>> THEN 0
    ELSE (IF log[1].credit_account_id = a THEN log[1].amount ELSE 0)
         - (IF log[1].debit_account_id = a THEN log[1].amount ELSE 0)
         + Net(Tail(log), a)

Debit(p) == call[p].debit_account_id
Credit(p) == call[p].credit_account_id
Amount(p) == call[p].amount

Raised(p) == pc[p] = "raised"
Exhausted(p) == pc[p] = "returned" /\ ~committed[p]
Failed(p) == Raised(p) \/ Exhausted(p)
OthersIdle(p, q) == \A r \in Sessions \ {p, q} : ncalls[r] = 0

\* C1: whenever no transfer is in flight, the committed balances sum to what
\* they summed to before the transfers began, which is zero.
C1_Conservation == Quiescent => SumOver(balances, Accounts) = 0

\* C2: a call that ended without committing (an error raised, or every
\* attempt lost to a conflict) has put no row into transactions, has changed
\* no committed balance, and has left nothing pending in its session.
C2_AtomicOnFailure ==
    \A p \in Sessions :
        Failed(p) => /\ nrec[p] = 0
                     /\ delta[p] = ZeroBalances
                     /\ inserted[p] = <<>>
                     /\ writes[p] = <<>>

\* a call lost all its attempts while another session committed a transfer
\* with a non-zero amount on an account of that call
C2_Witness ==
    \E p, q \in Sessions :
        /\ p # q
        /\ Exhausted(p) /\ conflicts[p] = MAX_RETRIES
        /\ committed[q] /\ Amount(q) # 0 /\ Debit(q) # Credit(q)
        /\ {Debit(q), Credit(q)} \cap {Debit(p), Credit(p)} # {}

\* C3: a call that committed appended exactly one row, lowered the committed
\* balance of its debit account by the amount and raised that of its credit
\* account by the amount, for every pair of identifiers, d = c included.
C3_SuccessPostcondition ==
    \A p \in Sessions :
        committed[p] => /\ nrec[p] = 1
                        /\ transactions # <<>>
                        /\ delta[p][Debit(p)] = 0 - Amount(p)
                        /\ delta[p][Credit(p)] = Amount(p)

\* C4: a call returns normally only if its transfer committed.
C4_NoSilentFailure ==
    \A p \in Sessions : pc[p] = "returned" => committed[p]

\* C5: once an attempt of a call has failed with an error that is not a lock
\* conflict, the call has raised; it neither sleeps nor starts an attempt.
C5_OnlyConflictRetried ==
    \A p \in Sessions :
        lastErr[p] \notin {"none", "Deadlock"} => pc[p] = "raised"

C6_Inv ==
    \A p \in Sessions :
        /\ attempt[p] \in 0..(MAX_RETRIES - 1)
        /\ conflicts[p] \in 0..MAX_RETRIES
        /\ pc[p] \in Statements => conflicts[p] = attempt[p]
        /\ pc[p] = "sleep" => conflicts[p] = attempt[p] + 1

C6_Step ==
    \A p \in Sessions :
        ncalls'[p] = ncalls[p] =>
            /\ attempt'[p] \in {attempt[p], attempt[p] + 1}
            /\ attempt'[p] # attempt[p] =>
                   pc[p] = "sleep" /\ pc'[p] = "select_debit"
            /\ conflicts'[p] \in {conflicts[p], conflicts[p] + 1}
            /\ (committed[p] \/ conflicts[p] = MAX_RETRIES) =>
                   pc'[p] \notin Statements

\* C6: a call makes at most MAX_RETRIES attempts: the attempt index stays
\* below MAX_RETRIES, equals the number of conflicts so far while an attempt
\* runs, moves only up and only by one, on leaving a backoff sleep, and no
\* statement runs again once the call committed or lost MAX_RETRIES attempts.
C6_BoundedRetry == [](C6_Inv) /\ [][C6_Step]_vars

\* a call committed on its last permitted attempt
C6_Witness ==
    \E p \in Sessions :
        committed[p] /\ attempt[p] = MAX_RETRIES - 1 /\ conflicts[p] = MAX_RETRIES - 1

\* C7: in every state the committed balance of every account is the credits
\* minus the debits of the committed rows of transactions: no debit shows
\* without its credit, no credit without its debit, no change without a row.
C7_Isolation ==
    \A a \in Accounts : balances[a] = Net(transactions, a)

\* transfer_funds run alone on committed balances bal
TransferAlone(bal, c) ==
    ApplyWrites(bal,
        << <<c.debit_account_id,
             NewDebit(bal[c.debit_account_id], c.amount)>>,
           <<c.credit_account_id,
             NewCredit(bal[c.credit_account_id], c.amount)>> >>)

FourDistinct(p, q) ==
    Cardinality({Debit(p), Credit(p), Debit(q), Credit(q)}) = 4

\* C8: two concurrent calls over four distinct accounts never wait for a
\* lock, never conflict, commit on their first attempt, and leave the
\* balances of running them one after the other, in either order.
C8_DisjointIndependent ==
    \A p, q \in Sessions :
        (/\ p # q
         /\ ncalls[p] = 1 /\ ncalls[q] = 1
         /\ OthersIdle(p, q)
         /\ FourDistinct(p, q)) =>
            /\ ~Blocked(p)
            /\ ~InDeadlock(p)
            /\ conflicts[p] = 0 /\ attempt[p] = 0
            /\ pc[p] \notin {"sleep", "raised"}
            /\ pc[p] = "returned" => committed[p]
            /\ (pc[p] = "returned" /\ pc[q] = "returned") =>
                   /\ balances = TransferAlone(TransferAlone(ZeroBalances, call[p]), call[q])
                   /\ balances = TransferAlone(TransferAlone(ZeroBalances, call[q]), call[p])

\* both of two calls over four distinct accounts have returned, each having
\* moved a non-zero amount
C8_Witness ==
    \E p, q \in Sessions :
        /\ p # q /\ FourDistinct(p, q) /\ ncalls[p] = 1 /\ ncalls[q] = 1
        /\ pc[p] = "returned" /\ pc[q] = "returned"
        /\ Amount(p) # 0 /\ Amount(q) # 0
        /\ Len(transactions) = 2

Opposite(p, q) ==
    /\ p # q
    /\ ncalls[p] = 1 /\ ncalls[q] = 1
    /\ Debit(p) # Credit(p)
    /\ Debit(p) = Credit(q) /\ Credit(p) = Debit(q)

\* C9: for two concurrent calls over the same two accounts in opposite
\* directions, a call that has ended has committed or lost MAX_RETRIES
\* attempts to conflicts, and the committed balances of the two accounts sum
\* to what they summed to at the start, which is zero.
C9_OppositeDirection ==
    \A p, q \in Sessions :
        (Opposite(p, q) /\ OthersIdle(p, q)) =>
            /\ pc[p] \in Terminal =>
                   \/ committed[p] /\ pc[p] = "returned"
                   \/ Exhausted(p) /\ conflicts[p] = MAX_RETRIES
            /\ balances[Debit(p)] + balances[Credit(p)] = 0

\* both calls of an opposite pair have ended, one of them after a deadlock,
\* and both moved a non-zero amount
C9_Witness ==
    \E p, q \in Sessions :
        /\ Opposite(p, q)
        /\ pc[p] \in Terminal /\ pc[q] \in Terminal
        /\ conflicts[p] > 0 /\ lastErr[p] = "Deadlock"
        /\ Amount(p) # 0 /\ Amount(q) # 0

\* C10: the committed rows of transactions are as many as the commits; a
\* call has one row exactly when it committed, and its net effect on any
\* balance is that of one attempt, however many attempts were rolled back.
C10_ExactlyOnce ==
    /\ Len(transactions) = ncommits
    /\ \A p \in Sessions :
        /\ nrec[p] = (IF committed[p] THEN 1 ELSE 0)
        /\ \A a \in Accounts :
               delta[p][a] \in {0, Amount(p), 0 - Amount(p)}

\* a call committed a non-zero amount after at least one rolled-back attempt
\* that had already inserted its row
C10_Witness ==
    \E p \in Sessions :
        committed[p] /\ conflicts[p] > 0 /\ Amount(p) # 0


\* ------------------------------------------- transfers on a shared account
\* the account every call of SpecShared touches
SharedAccount == CHOOSE a \in Accounts : \A b \in Accounts : a <= b

\* one call per session, between the shared account and another account
CallShared(p) ==
    /\ Call(p, Accounts, 1)
    /\ (call'[p].debit_account_id = SharedAccount)
           # (call'[p].credit_account_id = SharedAccount)

\* every call touches the shared account; any store error may strike
NextShared ==
    \E p \in Sessions :
        \/ CallShared(p)
        \/ SelectDebit(p)
        \/ SelectCredit(p)
        \/ InsertTransaction(p)
        \/ UpdateDebit(p)
        \/ UpdateCredit(p)
        \/ Commit(p)
        \/ StoreError(p)
        \/ DeadlockAbort(p)
        \/ Backoff(p)

SpecShared == Init /\ [][NextShared]_vars

Called == {p \in Sessions : ncalls[p] > 0}
Touches(p, a) == a \in {Debit(p), Credit(p)}
Counterpart(p, a) == IF Debit(p) = a THEN Credit(p) ELSE Debit(p)

\* what a committed transfer of p adds to the balance of account a
Signed(p, a) ==
    (IF Credit(p) = a THEN Amount(p) ELSE 0)
    - (IF Debit(p) = a THEN Amount(p) ELSE 0)

RECURSIVE SumCommitted(_, _)
SumCommitted(S, a) ==
    IF S = {} THEN 0
    ELSE LET p == CHOOSE q \in S : TRUE IN
         (IF committed[p] THEN Signed(p, a) ELSE 0)
         + SumCommitted(S \ {p}, a)

\* the calls made so far all touch a, each with another account of its own
CommonAccount(a) ==
    /\ Cardinality(Called) >= 2
    /\ \A p \in Called : Touches(p, a) /\ Debit(p) # Credit(p)
    /\ \A p, q \in Called : p # q => Counterpart(p, a) # Counterpart(q, a)

\* session p has read row a under lock in its open transaction
HasRead(p, a) ==
    \/ Debit(p) = a /\ pc[p] \in {"select_credit", "insert", "update_debit",
                                  "update_credit", "commit"}
    \/ Credit(p) = a /\ pc[p] \in {"insert", "update_debit", "update_credit",
                                   "commit"}

\* C11: when the concurrent calls all touch one account, each with its own
\* counterpart, the committed balance of that account is in every state the
\* sum of the amounts of the calls that committed (none is lost, under any
\* interleaving and any store errors); and no two sessions have both read a
\* row under lock in transactions that are still open.
C11_NoLostUpdate ==
    /\ \A a \in Accounts :
           CommonAccount(a) => balances[a] = SumCommitted(Called, a)
    /\ \A p, q \in Sessions : \A a \in Accounts :
           (p # q /\ HasRead(p, a)) => (rowLock[a] = p /\ ~HasRead(q, a))

\* two calls with a non-zero amount and distinct counterparts have both
\* committed on the account they share, one of them after a retry
C11_Witness ==
    \E a \in Accounts : \E p, q \in Called :
        /\ p # q /\ CommonAccount(a)
        /\ committed[p] /\ committed[q]
        /\ Amount(p) # 0 /\ Amount(q) # 0
        /\ conflicts[p] > 0
        /\ balances[a] # Signed(p, a) /\ balances[a] # Signed(q, a)


\* ------------------------------------------------- the steps of an attempt
Locked == {"select_credit", "insert", "update_debit", "update_credit",
           "commit"}
LockedBoth == {"insert", "update_debit", "update_credit", "commit"}

HoldsBoth(p) ==
    /\ Debit(p) \in Accounts /\ Credit(p) \in Accounts
    /\ rowLock[Debit(p)] = p /\ rowLock[Credit(p)] = p

HoldsNone(p) == \A a \in Accounts : rowLock[a] # p

\* the order of the statements of the try block
StatementOrder ==
    { <<"select_debit", "select_credit">>, <<"select_credit", "insert">>,
      <<"insert", "update_debit">>, <<"update_debit", "update_credit">>,
      <<"update_credit", "commit">> }

C12_Inv ==
    \A p \in Sessions :
        /\ pc[p] \in Locked => rowLock[Debit(p)] = p
        /\ pc[p] \in LockedBoth => HoldsBoth(p)
        /\ (inserted[p] # <<>> \/ writes[p] # <<>>) => HoldsBoth(p)
        /\ pc[p] \in {"select_debit", "select_credit", "insert"} =>
               inserted[p] = <<>> /\ writes[p] = <<>>
        /\ pc[p] = "update_debit" =>
               inserted[p] = <<call[p]>> /\ writes[p] = <<>>
        /\ pc[p] = "update_credit" =>
               /\ inserted[p] = <<call[p]>>
               /\ Len(writes[p]) = 1 /\ writes[p][1][1] = Debit(p)
        /\ pc[p] = "commit" =>
               /\ inserted[p] = <<call[p]>>
               /\ Len(writes[p]) = 2
               /\ writes[p][1][1] = Debit(p) /\ writes[p][2][1] = Credit(p)

C12_Step ==
    \A p \in Sessions :
        /\ (ncalls'[p] = ncalls[p] /\ pc'[p] # pc[p] /\ pc'[p] \in Statements) =>
               \/ <<pc[p], pc'[p]>> \in StatementOrder
               \/ pc[p] = "sleep" /\ pc'[p] = "select_debit"
        /\ (committed'[p] /\ ~committed[p]) =>
               /\ pc[p] = "commit" /\ pc'[p] = "returned"
               /\ HoldsBoth(p)
               /\ transactions' = Append(transactions, call[p])

\* C12: an attempt runs lock-and-read debit, lock-and-read credit, insert,
\* write debit, write credit, commit, in that order; the row is inserted and
\* the balances are written only while the session holds the row locks of
\* both accounts, and a call commits only from the end of that sequence.
C12_StepOrder == [](C12_Inv) /\ [][C12_Step]_vars

\* a session is about to commit while another one waits for a row it holds
C12_Witness ==
    \E p, q \in Sessions :
        /\ p # q
        /\ pc[p] = "commit" /\ Len(writes[p]) = 2
        /\ WaitsFor(q, p)

C13_Inv ==
    \A p \in Sessions :
        /\ pc[p] \in Locked => debit_balance[p] = <<balances[Debit(p)]>>
        /\ pc[p] \in LockedBoth => credit_balance[p] = <<balances[Credit(p)]>>
        /\ pc[p] \in {"update_credit", "commit"} =>
               writes[p][1] = <<Debit(p), NewDebit(balances[Debit(p)], Amount(p))>>
        /\ pc[p] = "commit" =>
               writes[p][2] = <<Credit(p), NewCredit(balances[Credit(p)], Amount(p))>>

C13_Step ==
    \A p \in Sessions :
        (ncalls'[p] = ncalls[p] /\ attempt'[p] # attempt[p]) =>
            /\ pc'[p] = "select_debit"
            /\ \A a \in Accounts : rowLock[a] # p /\ rowLock'[a] # p
            /\ inserted'[p] = <<>> /\ writes'[p] = <<>>

\* C13: a new attempt starts at the first statement holding no lock and with
\* nothing pending, and the balances an attempt holds in its locals and
\* writes are the committed balances it read under lock in that attempt,
\* whatever an earlier attempt of the call had read.
C13_RetryFromScratch == [](C13_Inv) /\ [][C13_Step]_vars

\* after losing a deadlock, the second attempt of a call has read a balance
\* that differs from the one its first attempt read
C13_Witness ==
    \E p \in Sessions :
        /\ lastErr[p] = "Deadlock" /\ attempt[p] = 1
        /\ pc[p] = "commit"
        /\ debit_balance[p] # <<0>>

\* C14: a call that sleeps in backoff or has ended (committed, raised, or
\* out of attempts) holds no row lock and has no uncommitted row or balance
\* write pending.
C14_RollbackBeforeWait ==
    \A p \in Sessions :
        pc[p] \in {"sleep"} \cup Terminal =>
            HoldsNone(p) /\ inserted[p] = <<>> /\ writes[p] = <<>>

\* a session sleeps after losing a deadlock, in which it held a row lock,
\* while the other session holds a lock
C14_Witness ==
    \E p, q \in Sessions :
        /\ p # q
        /\ pc[p] = "sleep" /\ lastErr[p] = "Deadlock"
        /\ ~HoldsNone(q)


\* ----------------------------------------------------------------- backoff
C15_Delay ==
    \A p \in Sessions :
        pc[p] = "sleep" =>
            /\ delay[p] = BaseDelay * (attempt[p] + 1)
            /\ conflicts[p] = attempt[p] + 1

C15_Step ==
    \A p \in Sessions :
        /\ (pc[p] = "sleep" /\ pc'[p] # "sleep") =>
               pc'[p] = "select_debit" /\ attempt'[p] = attempt[p] + 1
        /\ (ncalls'[p] = ncalls[p] /\ delay'[p] # delay[p]) =>
               pc'[p] = "sleep" /\ delay'[p] > delay[p]

\* C15: after the attempt with index i ends in a conflict the call waits
\* BaseDelay * (i + 1) ticks, so the waits of one call grow strictly, and
\* every wait is followed by the next attempt.
C15_LinearBackoff == [](C15_Delay) /\ [][C15_Step]_vars


\* -------------------------------------------------------------- termination
\* one call per session over the contended accounts and the unknown id; the
\* amount plays no part in the control flow and is fixed
CallLive(p) ==
    /\ Call(p, HotIds, 1)
    /\ call'[p].amount = MaxAmount

NextLive ==
    \E p \in Sessions :
        \/ CallLive(p)
        \/ SelectDebit(p)
        \/ SelectCredit(p)
        \/ InsertTransaction(p)
        \/ UpdateDebit(p)
        \/ UpdateCredit(p)
        \/ Commit(p)
        \/ StoreError(p)
        \/ DeadlockAbort(p)
        \/ Backoff(p)

\* the statements a session's own thread executes once the store lets it
Progress(p) ==
    \/ SelectDebit(p)
    \/ SelectCredit(p)
    \/ InsertTransaction(p)
    \/ UpdateDebit(p)
    \/ UpdateCredit(p)
    \/ Commit(p)
    \/ Backoff(p)

\* every session runs in a thread of its own, and the store's deadlock
\* detector eventually aborts a member of a cycle of lock waits; callers
\* need not call and store errors need not happen
Fairness ==
    /\ \A p \in Sessions : WF_vars(Progress(p))
    /\ WF_vars(\E p \in Sessions : DeadlockAbort(p))

SpecLive == Init /\ [][NextLive]_vars /\ Fairness

\* C16: under fair scheduling and a store that breaks every cycle of lock
\* waits, every call that has started eventually ends: committed, raised, or
\* out of attempts.
C16_Termination ==
    \A p \in Sessions : InFlight(p) ~> ~InFlight(p)

\* every session's call has ended, one of them after it lost a deadlock and
\* another after it waited out a store error
C16_Witness ==
    /\ \A p \in Sessions : ncalls[p] = 1 /\ ~InFlight(p)
    /\ \E p \in Sessions : lastErr[p] = "Deadlock"
    /\ \E p \in Sessions : lastErr[p] = "Unavailable"


\* ------------------------------------------------- validation and deadlock
\* C17: with no store error other than a detected deadlock, no call is
\* rejected: no call raises, and every call that returned before losing
\* MAX_RETRIES attempts to deadlocks has committed one row and moved exactly
\* its amount, whether the amount is zero, negative or more than the debit
\* account holds, so a debit balance may go below zero.
C17_NoValidation ==
    \A p \in Sessions :
        ncalls[p] = 1 =>
            /\ pc[p] # "raised"
            /\ lastErr[p] \in {"none", "Deadlock"}
            /\ (pc[p] = "returned" /\ conflicts[p] < MAX_RETRIES) =>
                   /\ committed[p] /\ nrec[p] = 1
                   /\ Debit(p) # Credit(p) =>
                          /\ delta[p][Debit(p)] = 0 - Amount(p)
                          /\ delta[p][Credit(p)] = Amount(p)

\* a transfer of more than the debit account held has committed and left it
\* negative, and a transfer of a negative amount has committed too
C17_Witness ==
    \E p, q \in Sessions :
        /\ p # q
        /\ committed[p] /\ Amount(p) > 0 /\ Debit(p) # Credit(p)
        /\ balances[Debit(p)] < 0
        /\ committed[q] /\ Amount(q) < 0 /\ Debit(q) # Credit(q)

\* C18 as claimed: of two concurrent calls over the same two accounts in
\* opposite directions, with no error but a detected deadlock, each meets at
\* most one conflict, none runs out of attempts or raises, and a call that
\* has ended has committed.
C18_OneRetry ==
    \A p, q \in Sessions :
        (Opposite(p, q) /\ OthersIdle(p, q)) =>
            /\ conflicts[p] <= 1 /\ attempt[p] <= 1
            /\ ~Exhausted(p) /\ ~Raised(p)
            /\ pc[p] \in Terminal => committed[p]

\* C18 as amended: of two such calls none raises, a call that has ended has
\* committed or has lost all MAX_RETRIES attempts to deadlocks, and the two
\* never both end without committing: when one is out of attempts, the other,
\* once ended, has committed.
C18_OneCommits ==
    \A p, q \in Sessions :
        (Opposite(p, q) /\ OthersIdle(p, q)) =>
            /\ ~Raised(p)
            /\ lastErr[p] \in {"none", "Deadlock"}
            /\ pc[p] = "returned" =>
                   \/ committed[p]
                   \/ conflicts[p] = MAX_RETRIES /\ lastErr[p] = "Deadlock"
            /\ (Exhausted(p) /\ pc[q] \in Terminal) => committed[q]

\* one call of an opposite pair lost all its attempts to deadlocks, each time
\* re-taking its first row before the waiting session was granted it, and the
\* other call then committed
C18_Witness ==
    \E p, q \in Sessions :
        /\ Opposite(p, q)
        /\ Exhausted(p) /\ conflicts[p] = MAX_RETRIES
        /\ committed[q] /\ conflicts[q] = 0

\* ------------------------------------------------------------------- frame
C19_Inv ==
    /\ DOMAIN balances = Accounts
    /\ \A p \in Sessions : \A a \in Accounts :
           ~Touches(p, a) => delta[p][a] = 0

C19_Step ==
    /\ DOMAIN balances' = DOMAIN balances
    /\ Len(transactions') >= Len(transactions)
    /\ SubSeq(transactions', 1, Len(transactions)) = transactions
    /\ \A a \in Accounts :
           balances'[a] # balances[a] =>
               \E p \in Sessions : pc[p] = "commit" /\ pc'[p] # pc[p] /\ Touches(p, a)

\* C19: a call changes the committed balance of no account but its debit and
\* credit accounts, the set of accounts stays the same, and every step keeps
\* the committed rows of transactions as a prefix of the new log.
C19_Frame == [](C19_Inv) /\ [][C19_Step]_vars

\* a second row has been appended to the log, and a call has committed while
\* an account it does not touch holds a balance another call gave it
C19_Witness ==
    /\ Len(transactions) = 2
    /\ \E p \in Sessions : \E a \in Accounts :
           committed[p] /\ ~Touches(p, a) /\ balances[a] # 0

\* ---------------------------------------------------------- unknown account
HasUnknown(p) ==
    ncalls[p] > 0 /\ (Debit(p) \notin Accounts \/ Credit(p) \notin Accounts)

\* C20: a call naming an identifier with no balance row never gets past its
\* reads, commits no row and no balance change, and is never a deadlock
\* victim; the missing row is an error raised to the caller after a rollback
\* that leaves the session without locks, never a retried conflict; unless a
\* store error made it retry, the call ends raised on its first attempt.
C20_UnknownAccount ==
    \A p \in Sessions :
        HasUnknown(p) =>
            /\ ~committed[p] /\ nrec[p] = 0 /\ delta[p] = ZeroBalances
            /\ inserted[p] = <<>> /\ writes[p] = <<>>
            /\ pc[p] \notin LockedBoth
            /\ lastErr[p] # "Deadlock"
            /\ lastErr[p] = "TypeError" => pc[p] = "raised" /\ HoldsNone(p)
            /\ (conflicts[p] = 0 /\ pc[p] \in {"returned", "raised"}) =>
                   pc[p] = "raised" /\ attempt[p] = 0

\* a call with a known debit and an unknown credit account has raised on its
\* first attempt, and the debit row it had locked is locked by another session
C20_Witness ==
    \E p, q \in Sessions :
        /\ p # q
        /\ Raised(p) /\ lastErr[p] = "TypeError" /\ attempt[p] = 0
        /\ Debit(p) \in Accounts /\ Credit(p) = UnknownId
        /\ rowLock[Debit(p)] = q

====
